---- MODULE Spec2Model ----
(***************************************************************************)
(* A model of crawler.py: the AQI crawl pipeline.  One run of main() loads *)
(* the keys of the CSV store, fetches every station of STATIONS through a  *)
(* pool of at most ten worker threads, collects the accepted observations  *)
(* in submission order, and, when there are any, copies the store to a     *)
(* timestamped backup and appends the new rows.                            *)
(***************************************************************************)
EXTENDS Integers, Sequences, FiniteSets, TLC

VARIABLES
    stations,         \* STATIONS: the catalog, a sequence of [city, sid]
    store,            \* the file OUTPUT_FILE: [exists, rows]
    backups,          \* the directory backups/: timestamp -> file content
    now,              \* the wall clock, in whole seconds
    token,            \* os.getenv("AQICN_TOKEN"): None, or Some(text)
    remote,           \* per station index: the answer its fetch got in this run
    pc,               \* where main() is
    existing_records, \* crawl_aqi_data's local: the set of keys that was loaded
    submitted,        \* number of executor.submit calls made so far
    collected,        \* number of future.result() calls returned so far
    fut,              \* per station index: state of its work item / future
    gets,             \* per station index: HTTP GETs issued in this run
    all_data,         \* crawl_aqi_data's all_data list (then main's all_data)
    out,              \* per station index: what its worker printed in this run
    mainOut,          \* what the main thread printed in this run
    backupReturned,   \* backup_csv_file returned normally in this run
    runs,             \* runs of main() started so far
    storeAtStart,     \* the store as it was when this run started
    backupsAtStart,   \* the backup directory as it was when this run started
    prevDone,         \* the previous run ended normally
    replay            \* the remote answers this run as it did the previous one

vars == <<stations, store, backups, now, token, remote, pc, existing_records,
          submitted, collected, fut, gets, all_data, out, mainOut,
          backupReturned, runs, storeAtStart, backupsAtStart, prevDone,
          replay>>

----------------------------------------------------------------------------
(* Bounds of the model *)

NumStations == 2     \* stations of the catalog used by Spec
PoolStations == 11   \* stations of the catalog used by PoolSpec
MaxRuns == 3         \* runs of main() in one behaviour
MaxClock == 1        \* the clock runs over 0..MaxClock
PoolRuns == 1        \* runs of main() in one behaviour of PoolSpec
ParseStations == 1   \* stations of the catalog used by ParseSpec
ParseRuns == 1       \* runs of main() in one behaviour of ParseSpec
LiveRuns == 2        \* runs of main() in one behaviour of LiveSpec

(* max_workers of the ThreadPoolExecutor *)
MaxWorkers == 10

----------------------------------------------------------------------------
(* JSON values.  A scalar is [t, v]: its type and, for a string or a      *)
(* number, its text as Python's str() renders it.  A document is a        *)
(* function from paths to scalars; a path that is not in its domain is an *)
(* absent key.  "$" is the root.                                          *)

J(t, v) == [t |-> t, v |-> v]
JNull == J("null", "")
JStr(s) == J("str", s)
JNum(s) == J("num", s)
JDict == J("dict", "")
JList == J("list", "")

None == <<>>
Some(x) == <<x>>

Has(doc, p) == p \in DOMAIN doc
IsDict(doc, p) == Has(doc, p) /\ doc[p].t = "dict"

(* Python truthiness of a decoded JSON value *)
Truthy(doc) ==
    /\ Has(doc, "$")
    /\ CASE doc["$"].t = "dict" -> DOMAIN doc # {"$"}
         [] doc["$"].t = "list" -> DOMAIN doc # {"$"}
         [] doc["$"].t = "str"  -> doc["$"].v # ""
         [] doc["$"].t = "num"  -> doc["$"].v \notin {"0", "0.0"}
         [] OTHER -> FALSE

----------------------------------------------------------------------------
(* The station catalog *)

Catalog ==
    << [city |-> "Hanoi", sid |-> "1583"],
       [city |-> "Bangkok", sid |-> "5773"],
       [city |-> "Delhi", sid |-> "2554"],
       [city |-> "Mumbai", sid |-> "12454"],
       [city |-> "Seoul", sid |-> "5508"],
       [city |-> "Beijing", sid |-> "1451"],
       [city |-> "Shanghai", sid |-> "1437"],
       [city |-> "Shinjuku (Tokyo)", sid |-> "2289"],
       [city |-> "Osaka", sid |-> "5543"],
       [city |-> "Paris", sid |-> "5722"],
       [city |-> "London", sid |-> "5724"],
       [city |-> "Frankfurt", sid |-> "10842"],
       [city |-> "Hamburg", sid |-> "6125"],
       [city |-> "Moscow", sid |-> "13618"],
       [city |-> "Wuhan", sid |-> "1529"],
       [city |-> "Warsaw (Poland)", sid |-> "3399"],
       [city |-> "Winnellie (Australia)", sid |-> "6442"],
       [city |-> "Bangalore (India)", sid |-> "3758"],
       [city |-> "Chennai (India)", sid |-> "13739"],
       [city |-> "Boston", sid |-> "3577"],
       [city |-> "Georgia", sid |-> "3906"],
       [city |-> "Phoenix", sid |-> "5944"],
       [city |-> "Hyderabad (India)", sid |-> "14125"],
       [city |-> "Denver", sid |-> "6323"],
       [city |-> "Daegu", sid |-> "5523"],
       [city |-> "Gyeonggi", sid |-> "1696"],
       [city |-> "Nagoya", sid |-> "5540"],
       [city |-> "Fukuoka", sid |-> "5551"],
       [city |-> "Kawasaki", sid |-> "5580"],
       [city |-> "Shenzhen", sid |-> "1539"],
       [city |-> "Zhongshan (Taiwan)", sid |-> "1597"],
       [city |-> "Chongqing", sid |-> "1453"],
       [city |-> "Istanbul (Turkey)", sid |-> "4151"] >>

----------------------------------------------------------------------------
(* parse_aqi_response *)

Fields ==
    << "datetime", "city", "lat", "lon", "aqi_hour", "dominantpol_aqi",
       "pm25", "pm10", "no2", "so2", "co", "o3",
       "temperature", "humidity", "pressure", "wind_speed", "wind_gust",
       "dew_point" >>

FieldSet == {Fields[i] : i \in 1..Len(Fields)}

(* the iaqi key each pollutant or weather field is read from *)
IaqiKey(f) ==
    CASE f = "temperature" -> "t"
      [] f = "humidity"    -> "h"
      [] f = "pressure"    -> "p"
      [] f = "wind_speed"  -> "w"
      [] f = "wind_gust"   -> "wg"
      [] f = "dew_point"   -> "dew"
      [] OTHER             -> f

IaqiFields == FieldSet \ {"datetime", "city", "lat", "lon", "aqi_hour",
                          "dominantpol_aqi"}

(* iaqi.get(k, {}).get("v") raises when iaqi or iaqi[k] has no .get *)
IaqiGetRaises(data, k) ==
    \/ ~IsDict(data, "iaqi")
    \/ Has(data, "iaqi." \o k) /\ ~IsDict(data, "iaqi." \o k)

IaqiGet(data, k) ==
    IF Has(data, "iaqi." \o k \o ".v") THEN data["iaqi." \o k \o ".v"]
    ELSE JNull

(* some subscript or attribute of the try block raises; city.geo is a     *)
(* list, null or absent in the payloads drawn (subscripting a str is not  *)
(* modelled)                                                               *)
ParseRaises(data) ==
    \/ ~IsDict(data, "$")
    \/ ~Has(data, "iaqi")
    \/ ~IsDict(data, "time")
    \/ ~Has(data, "time.iso")
    \/ ~IsDict(data, "city")
    \/ ~Has(data, "city.geo")
    \/ data["city.geo"].t # "list"
    \/ ~Has(data, "city.geo.0")
    \/ ~Has(data, "city.geo.1")
    \/ ~Has(data, "aqi")
    \/ \E f \in IaqiFields : IaqiGetRaises(data, IaqiKey(f))

parse_aqi_response(data, city_name) ==
    IF ParseRaises(data) THEN None
    ELSE Some([f \in FieldSet |->
            CASE f = "datetime" -> data["time.iso"]
              [] f = "city"     -> JStr(city_name)
              [] f = "lat"      -> data["city.geo.0"]
              [] f = "lon"      -> data["city.geo.1"]
              [] f = "aqi_hour" -> data["aqi"]
              [] f = "dominantpol_aqi" ->
                    IF Has(data, "dominentpol") THEN data["dominentpol"]
                    ELSE JNull
              [] OTHER -> IaqiGet(data, IaqiKey(f))])

----------------------------------------------------------------------------
(* The CSV file: a sequence of rows, each a sequence of field texts.       *)

(* csv.writer writes None as the empty field and anything else as str()   *)
CsvField(v) == IF v.t = "null" THEN "" ELSE v.v

CsvRow(obs) == [i \in 1..Len(Fields) |-> CsvField(obs[Fields[i]])]

CsvRows(data_list) == [i \in 1..Len(data_list) |-> CsvRow(data_list[i])]

(* fieldnames = data_list[0].keys(): the keys of the dict parse builds *)
Header == Fields

NoFile == [exists |-> FALSE, rows |-> <<>>]

(* csv.DictReader: the first row names the columns of the rows after it *)
HasColumn(header, name) == \E i \in 1..Len(header) : header[i] = name

Column(header, name) ==
    CHOOSE i \in 1..Len(header) :
        /\ header[i] = name
        /\ \A j \in 1..Len(header) : header[j] = name => j <= i

Cell(header, row, name) ==
    IF Column(header, name) <= Len(row) THEN JStr(row[Column(header, name)])
    ELSE JNull

DataRows(file) == IF Len(file.rows) = 0 THEN <<>> ELSE Tail(file.rows)

(* row['datetime'] or row['city'] raises KeyError *)
LoadRaises(file) ==
    /\ file.exists
    /\ Len(DataRows(file)) > 0
    /\ ~(HasColumn(file.rows[1], "datetime") /\ HasColumn(file.rows[1], "city"))

load_existing_records(file) ==
    IF ~file.exists THEN {}
    ELSE { << Cell(file.rows[1], DataRows(file)[i], "datetime"),
              Cell(file.rows[1], DataRows(file)[i], "city") >> :
           i \in 1..Len(DataRows(file)) }

(* os.path.isfile(OUTPUT_FILE) / os.path.exists(OUTPUT_FILE) *)
FileExists(file) == file.exists

(* what save_to_csv writes, in order *)
SaveLines(file, data_list) ==
    (IF ~FileExists(file) THEN <<Header>> ELSE <<>>) \o CsvRows(data_list)

(* opened with mode "w": the rows already there are lost *)
save_to_csv_truncating(file, data_list) ==
    IF data_list = <<>> THEN file
    ELSE [exists |-> TRUE, rows |-> SaveLines(file, data_list)]

save_to_csv(file, data_list) ==
    IF data_list = <<>> THEN file
    ELSE [exists |-> TRUE, rows |-> file.rows \o SaveLines(file, data_list)]

(* the file after open() or a write raised: nothing written because open  *)
(* failed, or the file opened (so created) and a proper prefix written    *)
SaveFailures(file, data_list) ==
    {file} \cup
    { [exists |-> TRUE,
       rows |-> file.rows \o SubSeq(SaveLines(file, data_list), 1, k)] :
      k \in 0..(Len(SaveLines(file, data_list)) - 1) }

----------------------------------------------------------------------------
(* The backup directory *)

(* backups/aqi_data_<timestamp>.csv: one name per second of the clock *)
BackupName(t) == t

(* shutil.copy(OUTPUT_FILE, backup_file) creates or overwrites *)
CopyTo(dir, name, rows) ==
    [n \in DOMAIN dir \cup {name} |-> IF n = name THEN rows ELSE dir[n]]

backup_csv_file_skipped(file, dir, t) == dir

backup_csv_file_always(file, dir, t) == CopyTo(dir, BackupName(t), file.rows)

backup_csv_file(file, dir, t) ==
    IF FileExists(file) THEN CopyTo(dir, BackupName(t), file.rows) ELSE dir

(* the directory after makedirs or copy raised: untouched, or a cut copy *)
BackupFailures(file, dir, t) ==
    {dir} \cup
    { CopyTo(dir, BackupName(t), SubSeq(file.rows, 1, k)) :
      k \in 0..(Len(file.rows) - 1) }

----------------------------------------------------------------------------
(* Remote answers.  exc: requests.get raises (transport error, timeout);   *)
(* code: the HTTP status; json: the body decodes to an object; status: the *)
(* "status" member when present; data: the "data" member when present.     *)

Response(exc, code, json, status, data) ==
    [exc |-> exc, code |-> code, json |-> json, status |-> status, data |-> data]

Payload(iso) ==
    "$" :> JDict @@ "iaqi" :> JDict @@ "iaqi.pm25" :> JDict @@
    "iaqi.pm25.v" :> JNum("42") @@ "time" :> JDict @@ "time.iso" :> iso @@
    "city" :> JDict @@ "city.geo" :> JList @@
    "city.geo.0" :> JNum("21.03") @@ "city.geo.1" :> JNum("105.85") @@
    "aqi" :> JNum("55") @@ "dominentpol" :> JStr("pm25")

Without(doc, p) == [q \in DOMAIN doc \ {p} |-> doc[q]]

TransportError == Response(TRUE, 0, FALSE, None, None)
HttpError == Response(FALSE, 500, FALSE, None, None)
ApiError == Response(FALSE, 200, TRUE, Some("error"), Some("$" :> JStr("Unknown station")))
NoData == Response(FALSE, 200, TRUE, Some("ok"), None)
NoIso == Response(FALSE, 200, TRUE, Some("ok"), Some(Without(Payload(JNull), "time.iso")))
Valid(iso) == Response(FALSE, 200, TRUE, Some("ok"), Some(Payload(iso)))

(* the values of time.iso the remote sends: two instants, and null *)
Isos == { JStr("2024-01-01T00:00:00+07:00"), JStr("2024-01-01T01:00:00+07:00"),
          JNull }

Responses ==
    { TransportError, HttpError, ApiError, NoData, NoIso } \cup
    { Valid(iso) : iso \in Isos }

(* no answer yet: the fetch has not returned in this run *)
NoAnswer == Response(FALSE, 0, FALSE, None, None)

(* what each station may answer under Spec: anything of Responses *)
AnyAnswer == [i \in 1..Len(Catalog) |-> Responses]

(* what each station answers under PoolSpec: every other station fails *)
PoolAnswer ==
    [i \in 1..Len(Catalog) |->
        IF i % 2 = 0 THEN {TransportError}
        ELSE {Valid(JStr("2024-01-01T00:00:00+07:00"))}]

(* The payloads parse_aqi_response is applied to under ParseSpec: each     *)
(* part it reads is absent, well-formed, or of another JSON type          *)
NoPaths == [p \in {} |-> JNull]

ParseDoc(iaqi, pm25, time, geo, aqi, dom) ==
    ("$" :> JDict)
    @@ (CASE iaqi = "dict" -> "iaqi" :> JDict
          [] iaqi = "list" -> "iaqi" :> JList
          [] iaqi = "null" -> "iaqi" :> JNull
          [] OTHER -> NoPaths)
    @@ (CASE pm25 = "v"    -> "iaqi.pm25" :> JDict @@ "iaqi.pm25.v" :> JNum("42")
          [] pm25 = "dict" -> "iaqi.pm25" :> JDict
          [] pm25 = "null" -> "iaqi.pm25" :> JNull
          [] pm25 = "num"  -> "iaqi.pm25" :> JNum("42")
          [] OTHER -> NoPaths)
    @@ (CASE time = "iso"  -> "time" :> JDict @@
                              "time.iso" :> JStr("2024-01-01T00:00:00+07:00")
          [] time = "isonull" -> "time" :> JDict @@ "time.iso" :> JNull
          [] time = "dict" -> "time" :> JDict
          [] time = "null" -> "time" :> JNull
          [] OTHER -> NoPaths)
    @@ (CASE geo = "two"   -> "city" :> JDict @@ "city.geo" :> JList @@
                              "city.geo.0" :> JNum("21.03") @@
                              "city.geo.1" :> JNum("105.85")
          [] geo = "one"   -> "city" :> JDict @@ "city.geo" :> JList @@
                              "city.geo.0" :> JNum("21.03")
          [] geo = "null"  -> "city" :> JDict @@ "city.geo" :> JNull
          [] geo = "dict"  -> "city" :> JDict
          [] OTHER -> NoPaths)
    @@ (CASE aqi = "num"   -> "aqi" :> JNum("55")
          [] aqi = "str"   -> "aqi" :> JStr("-")
          [] OTHER -> NoPaths)
    @@ (CASE dom = "str"   -> "dominentpol" :> JStr("pm25")
          [] OTHER -> NoPaths)

ParsePayloads ==
    { ParseDoc(iaqi, pm25, time, geo, aqi, dom) :
        iaqi \in {"absent", "dict", "list", "null"},
        pm25 \in {"absent", "v", "dict", "null", "num"},
        time \in {"absent", "iso", "isonull", "dict", "null"},
        geo \in {"absent", "two", "one", "null", "dict"},
        aqi \in {"absent", "num", "str"},
        dom \in {"absent", "str"} }

(* what each station answers under ParseSpec: HTTP 200, status "ok" *)
ParseAnswer ==
    [i \in 1..Len(Catalog) |->
        { Response(FALSE, 200, TRUE, Some("ok"), Some(d)) :
            d \in {q \in ParsePayloads : Has(q, "iaqi.pm25") => IsDict(q, "iaqi")} }]

----------------------------------------------------------------------------
(* crawl_city: what one worker returns and prints for the answer r *)

Key(parsed) == << parsed["datetime"], parsed["city"] >>

IsDuplicate_never(parsed, existing) == FALSE

IsDuplicate(parsed, existing) == Key(parsed) \in existing

(* an exception reaches the except clause: requests.get, response.json()  *)
(* or result['status'] raised                                              *)
FetchRaises(r) == r.exc \/ (r.code = 200 /\ (~r.json \/ r.status = None))

ApiOk(r) == r.status = Some("ok") /\ r.data # None /\ Truthy(r.data[1])

crawl_city(city, r, existing) ==
    IF FetchRaises(r) THEN [result |-> None, printed |-> <<"Failed">>]
    ELSE IF r.code # 200 THEN [result |-> None, printed |-> <<>>]
    ELSE IF ~ApiOk(r) THEN [result |-> None, printed |-> <<"API error">>]
    ELSE IF parse_aqi_response(r.data[1], city) = None
         THEN [result |-> None, printed |-> <<"Parsing error">>]
    ELSE IF IsDuplicate(parse_aqi_response(r.data[1], city)[1], existing)
         THEN [result |-> None, printed |-> <<"Skipped (duplicate)">>]
    ELSE [result |-> parse_aqi_response(r.data[1], city),
          printed |-> <<"Crawled">>]

(* the worker records the key it accepted in the shared set *)
IndexAfter_adding(existing, result) ==
    IF result # None THEN existing \cup {Key(result[1])} ELSE existing

(* the set crawl_city was handed, when it returns: it is only tested with *)
(* "key not in existing_records"                                          *)
IndexAfter(existing, result) == existing

----------------------------------------------------------------------------
(* The run *)

N == Len(stations)

NoFuture == [st |-> "none", result |-> None]

InFlight == {i \in 1..N : fut[i].st = "running"}

WorkerFree_always == TRUE

(* no thread of the pool ever takes a work item *)
WorkerFree_none == FALSE

(* the executor has fewer than max_workers threads busy *)
WorkerFree == Cardinality(InFlight) < MaxWorkers

(* the work queue is first in, first out *)
QueueHead(i) == fut[i].st = "queued" /\ \A j \in 1..(i - 1) : fut[j].st # "queued"

Ended == pc \in {"idle", "done", "fatal"}

HasData_always(data_list) == TRUE

HasData_never(data_list) == FALSE

(* main: if all_data *)
HasData(data_list) == data_list # <<>>

OnStoreError_swallowed == "save"

(* main has no handler: an exception of backup_csv_file or save_to_csv  *)
(* leaves main and ends the process                                     *)
OnStoreError == "fatal"

Accumulate_reset(list, result) ==
    IF result # None THEN Append(list, result[1]) ELSE <<>>

Accumulate_twice(list, result) ==
    IF result # None THEN list \o <<result[1], result[1]>> ELSE list

Accumulate_front(list, result) ==
    IF result # None THEN <<result[1]>> \o list ELSE list

(* crawl_aqi_data: if result: all_data.append(result) *)
Accumulate(list, result) ==
    IF result # None THEN Append(list, result[1]) ELSE list

(* the values os.getenv can give: unset, set but empty, set *)
Tokens == {None, Some(""), Some("t0ken")}

(* the check tests "token is None": an empty token passes *)
TokenMissing_unset_only(tok) == tok = None

(* "if not token": None and the empty string are both falsy *)
TokenMissing(tok) == tok = None \/ tok[1] = ""

InitWith(n) ==
    /\ stations = SubSeq(Catalog, 1, n)
    /\ store = NoFile
    /\ backups = <<>>
    /\ now = 0
    /\ token = Some("t0ken")
    /\ remote = [i \in 1..n |-> NoAnswer]
    /\ pc = "idle"
    /\ existing_records = {}
    /\ submitted = 0
    /\ collected = 0
    /\ fut = [i \in 1..n |-> NoFuture]
    /\ gets = [i \in 1..n |-> 0]
    /\ all_data = <<>>
    /\ out = [i \in 1..n |-> <<>>]
    /\ mainOut = <<>>
    /\ backupReturned = FALSE
    /\ runs = 0
    /\ storeAtStart = NoFile
    /\ backupsAtStart = <<>>
    /\ prevDone = FALSE
    /\ replay = FALSE

Init == InitWith(NumStations)

(* a new process runs main(): its environment is fixed here, and whether  *)
(* the remote will answer as it did in the previous run                   *)
StartRun(limit) ==
    /\ Ended
    /\ runs < limit
    /\ runs' = runs + 1
    /\ token' \in Tokens
    /\ replay' \in BOOLEAN
    /\ replay' => \A i \in 1..N : remote[i] # NoAnswer
    /\ remote' = IF replay' THEN remote ELSE [i \in 1..N |-> NoAnswer]
    /\ prevDone' = (pc = "done")
    /\ pc' = "crawl"
    /\ existing_records' = {}
    /\ submitted' = 0
    /\ collected' = 0
    /\ fut' = [i \in 1..N |-> NoFuture]
    /\ gets' = [i \in 1..N |-> 0]
    /\ all_data' = <<>>
    /\ out' = [i \in 1..N |-> <<>>]
    /\ mainOut' = <<>>
    /\ backupReturned' = FALSE
    /\ storeAtStart' = store
    /\ backupsAtStart' = backups
    /\ UNCHANGED <<stations, store, backups, now>>

(* a second passes; the clock is read once a run, by backup_csv_file *)
Tick ==
    /\ Ended
    /\ now < MaxClock
    /\ now' = now + 1
    /\ UNCHANGED <<stations, store, backups, token, remote, pc,
                   existing_records, submitted, collected, fut, gets,
                   all_data, out, mainOut, backupReturned, runs, storeAtStart,
                   backupsAtStart, prevDone, replay>>

(* crawl_aqi_data: the credential check *)
CheckToken ==
    /\ pc = "crawl"
    /\ IF TokenMissing(token)
       THEN pc' = "fatal" /\ mainOut' = Append(mainOut, "RuntimeError")
       ELSE pc' = "load" /\ mainOut' = mainOut
    /\ UNCHANGED <<stations, store, backups, now, token, remote,
                   existing_records, submitted, collected, fut, gets,
                   all_data, out, backupReturned, runs, storeAtStart,
                   backupsAtStart, prevDone, replay>>

(* crawl_aqi_data: existing_records = load_existing_records() *)
Load ==
    /\ pc = "load"
    /\ IF LoadRaises(store)
       THEN /\ pc' = "fatal"
            /\ mainOut' = Append(mainOut, "KeyError")
            /\ existing_records' = existing_records
       ELSE /\ pc' = "fetch"
            /\ mainOut' = Append(mainOut, "Starting crawl")
            /\ existing_records' = load_existing_records(store)
    /\ UNCHANGED <<stations, store, backups, now, token, remote, submitted,
                   collected, fut, gets, all_data, out, backupReturned, runs,
                   storeAtStart, backupsAtStart, prevDone, replay>>

(* executor.submit(crawl_city, ...) for the next station of STATIONS *)
Submit ==
    /\ pc = "fetch"
    /\ submitted < N
    /\ submitted' = submitted + 1
    /\ fut' = [fut EXCEPT ![submitted + 1].st = "queued"]
    /\ UNCHANGED <<stations, store, backups, now, token, remote, pc,
                   existing_records, collected, gets, all_data, out, mainOut,
                   backupReturned, runs, storeAtStart, backupsAtStart,
                   prevDone, replay>>

(* a pool thread takes the next work item and calls requests.get *)
WorkerStart(i) ==
    /\ QueueHead(i)
    /\ WorkerFree
    /\ fut' = [fut EXCEPT ![i].st = "running"]
    /\ gets' = [gets EXCEPT ![i] = @ + 1]
    /\ UNCHANGED <<stations, store, backups, now, token, remote, pc,
                   existing_records, submitted, collected, all_data, out,
                   mainOut, backupReturned, runs, storeAtStart,
                   backupsAtStart, prevDone, replay>>

(* the answer (or the error, or the timeout) arrives and crawl_city returns *)
WorkerFinish(i, answers) ==
    /\ fut[i].st = "running"
    /\ \E a \in (IF replay THEN {remote[i]} ELSE answers[i]) :
         LET r == crawl_city(stations[i].city, a, existing_records)
         IN /\ remote' = [remote EXCEPT ![i] = a]
            /\ fut' = [fut EXCEPT ![i] = [st |-> "done", result |-> r.result]]
            /\ out' = [out EXCEPT ![i] = @ \o r.printed]
            /\ existing_records' = IndexAfter(existing_records, r.result)
    /\ UNCHANGED <<stations, store, backups, now, token, pc,
                   submitted, collected, gets, all_data,
                   mainOut, backupReturned, runs, storeAtStart,
                   backupsAtStart, prevDone, replay>>

(* result = future.result() for the next future of the list, once it is done *)
Collect ==
    /\ pc = "fetch"
    /\ submitted = N
    /\ collected < N
    /\ fut[collected + 1].st = "done"
    /\ collected' = collected + 1
    /\ all_data' = Accumulate(all_data, fut[collected + 1].result)
    /\ UNCHANGED <<stations, store, backups, now, token, remote, pc,
                   existing_records, submitted, fut, gets, out, mainOut,
                   backupReturned, runs, storeAtStart, backupsAtStart,
                   prevDone, replay>>

(* crawl_aqi_data prints the summary and returns; main tests all_data *)
Summary ==
    /\ pc = "fetch"
    /\ submitted = N
    /\ collected = N
    /\ IF HasData(all_data)
       THEN pc' = "backup" /\ mainOut' = Append(mainOut, "Summary")
       ELSE pc' = "done" /\ mainOut' = mainOut \o <<"Summary", "No new data">>
    /\ UNCHANGED <<stations, store, backups, now, token, remote,
                   existing_records, submitted, collected, fut, gets,
                   all_data, out, backupReturned, runs, storeAtStart,
                   backupsAtStart, prevDone, replay>>

(* main: backup_csv_file() returns *)
Backup ==
    /\ pc = "backup"
    /\ backups' = backup_csv_file(store, backups, now)
    /\ mainOut' = IF FileExists(store) THEN Append(mainOut, "Backup created")
                  ELSE mainOut
    /\ backupReturned' = TRUE
    /\ pc' = "save"
    /\ UNCHANGED <<stations, store, now, token, remote, existing_records,
                   submitted, collected, fut, gets, all_data, out, runs,
                   storeAtStart, backupsAtStart, prevDone, replay>>

(* main: backup_csv_file() raises OSError out of makedirs or copy *)
BackupFail ==
    /\ pc = "backup"
    /\ FileExists(store)
    /\ backups' \in BackupFailures(store, backups, now)
    /\ mainOut' = Append(mainOut, "OSError")
    /\ pc' = OnStoreError
    /\ UNCHANGED <<stations, store, now, token, remote, existing_records,
                   submitted, collected, fut, gets, all_data, out,
                   backupReturned, runs, storeAtStart, backupsAtStart,
                   prevDone, replay>>

(* main: save_to_csv(all_data) returns, and main reports *)
Save ==
    /\ pc = "save"
    /\ store' = save_to_csv(store, all_data)
    /\ mainOut' = Append(mainOut, "Saved")
    /\ pc' = "done"
    /\ UNCHANGED <<stations, backups, now, token, remote, existing_records,
                   submitted, collected, fut, gets, all_data, out,
                   backupReturned, runs, storeAtStart, backupsAtStart,
                   prevDone, replay>>

(* main: save_to_csv(all_data) raises OSError out of open or a write *)
SaveFail ==
    /\ pc = "save"
    /\ store' \in SaveFailures(store, all_data)
    /\ mainOut' = Append(mainOut, "OSError")
    /\ pc' = OnStoreError
    /\ UNCHANGED <<stations, backups, now, token, remote, existing_records,
                   submitted, collected, fut, gets, all_data, out,
                   backupReturned, runs, storeAtStart, backupsAtStart,
                   prevDone, replay>>

Next ==
    \/ StartRun(MaxRuns)
    \/ Tick
    \/ CheckToken
    \/ Load
    \/ Submit
    \/ \E i \in 1..N : WorkerStart(i)
    \/ \E i \in 1..N : WorkerFinish(i, AnyAnswer)
    \/ Collect
    \/ Summary
    \/ Backup
    \/ BackupFail
    \/ Save
    \/ SaveFail

Spec == Init /\ [][Next]_vars

(* The same program over a catalog longer than the pool is wide *)
PoolInit == InitWith(PoolStations)

PoolNext ==
    \/ StartRun(PoolRuns)
    \/ CheckToken
    \/ Load
    \/ Submit
    \/ \E i \in 1..N : WorkerStart(i)
    \/ \E i \in 1..N : WorkerFinish(i, PoolAnswer)
    \/ Collect
    \/ Summary
    \/ Backup
    \/ Save

PoolSpec == PoolInit /\ [][PoolNext]_vars

(* The program under fair scheduling: a process that has started main()   *)
(* keeps running, every pool thread keeps running, every fetch returns,   *)
(* raises or times out (requests.get has timeout=20), and every call of   *)
(* backup_csv_file and save_to_csv returns or raises                      *)
LiveNext ==
    \/ StartRun(LiveRuns)
    \/ Tick
    \/ CheckToken
    \/ Load
    \/ Submit
    \/ \E i \in 1..N : WorkerStart(i)
    \/ \E i \in 1..N : WorkerFinish(i, AnyAnswer)
    \/ Collect
    \/ Summary
    \/ Backup
    \/ BackupFail
    \/ Save
    \/ SaveFail

Fairness ==
    /\ WF_vars(CheckToken)
    /\ WF_vars(Load)
    /\ WF_vars(Submit)
    /\ \A i \in 1..NumStations : WF_vars(WorkerStart(i))
    /\ \A i \in 1..NumStations : WF_vars(WorkerFinish(i, AnyAnswer))
    /\ WF_vars(Collect)
    /\ WF_vars(Summary)
    /\ WF_vars(Backup \/ BackupFail)
    /\ WF_vars(Save \/ SaveFail)

LiveSpec == Init /\ [][LiveNext]_vars /\ Fairness

(* parse_aqi_response over the payloads of ParsePayloads: one station, one *)
(* run from an absent store, the answer fixed before the run or drawn when *)
(* it arrives                                                              *)
ParseInit ==
    /\ stations = SubSeq(Catalog, 1, ParseStations)
    /\ remote \in [1..ParseStations -> ParseAnswer[1]]
    /\ store = NoFile
    /\ backups = <<>>
    /\ now = 0
    /\ token = Some("t0ken")
    /\ pc = "idle"
    /\ existing_records = {}
    /\ submitted = 0
    /\ collected = 0
    /\ fut = [i \in 1..ParseStations |-> NoFuture]
    /\ gets = [i \in 1..ParseStations |-> 0]
    /\ all_data = <<>>
    /\ out = [i \in 1..ParseStations |-> <<>>]
    /\ mainOut = <<>>
    /\ backupReturned = FALSE
    /\ runs = 0
    /\ storeAtStart = NoFile
    /\ backupsAtStart = <<>>
    /\ prevDone = FALSE
    /\ replay = FALSE

ParseNext ==
    \/ StartRun(ParseRuns)
    \/ CheckToken
    \/ Load
    \/ Submit
    \/ \E i \in 1..N : WorkerStart(i)
    \/ \E i \in 1..N : WorkerFinish(i, ParseAnswer)
    \/ Collect
    \/ Summary
    \/ Backup
    \/ Save

ParseSpec == ParseInit /\ [][ParseNext]_vars

----------------------------------------------------------------------------
(* Properties *)

Range(seq) == {seq[i] : i \in 1..Len(seq)}

(* the rows of a file that are not the header row *)
StoredRows(file) == SelectSeq(file.rows, LAMBDA row : row # Header)

(* the (datetime, city) key of a stored row, as the columns are written *)
RowKey(row) == << row[1], row[2] >>

KeysDistinct(file) ==
    \A i, j \in 1..Len(StoredRows(file)) :
        i # j => RowKey(StoredRows(file)[i]) # RowKey(StoredRows(file)[j])

(* C1: the store never holds two data rows with the same (datetime, city) *)
(* key, whatever the remote answers of the runs were.                     *)
C1_StoreKeysUnique == KeysDistinct(store)

(* C2: a second run with the remote answers of the run before it accepts  *)
(* nothing and leaves the store as it was, each key being stored once.    *)
C2_Idempotent ==
    (pc = "done" /\ prevDone /\ replay)
        => (all_data = <<>> /\ store = storeAtStart /\ KeysDistinct(store))

(* C3: once a run that found a store and accepted an observation is     *)
(* done, some backup file holds exactly the store's content of before    *)
(* the run.                                                              *)
C3_BackupHoldsPreRunStore ==
    (pc = "done" /\ FileExists(storeAtStart) /\ all_data # <<>>)
        => \E n \in DOMAIN backups : backups[n] = storeAtStart.rows

C3_Witness ==
    /\ pc = "done"
    /\ FileExists(storeAtStart)
    /\ Len(storeAtStart.rows) > 1
    /\ all_data # <<>>
    /\ store # storeAtStart

(* C4: while a run has accepted nothing, and so when it ends having      *)
(* accepted nothing, the store and the backup directory are as they      *)
(* were when the run started.                                            *)
C4_NoOp ==
    all_data = <<>> => (store = storeAtStart /\ backups = backupsAtStart)

C4_Witness ==
    /\ pc = "done"
    /\ all_data = <<>>
    /\ FileExists(store)
    /\ \E i \in 1..N : "Skipped (duplicate)" \in Range(out[i])
    /\ \E i \in 1..N : "Failed" \in Range(out[i])

(* the index of this run has been loaded *)
IndexLoaded == "Starting crawl" \in Range(mainOut)

(* station i answers with a well-formed reading whose key is not indexed *)
Acceptable(i) ==
    \E iso \in Isos :
        /\ remote[i] = Valid(iso)
        /\ << iso, JStr(stations[i].city) >> \notin existing_records

ReadingKey(i) == << remote[i].data[1]["time.iso"], JStr(stations[i].city) >>

(* C5: a station with a valid answer and a new key is accepted whatever  *)
(* the other stations' fetches did, its observation is in the list once  *)
(* its future is collected, and no run that started fetching ends        *)
(* fatally before every station has been collected.                      *)
C5_FailureIsolation ==
    /\ \A i \in 1..N :
        (fut[i].st = "done" /\ Acceptable(i))
            => (fut[i].result # None /\ Key(fut[i].result[1]) = ReadingKey(i))
    /\ \A i \in 1..N :
        (i <= collected /\ Acceptable(i))
            => \E k \in 1..Len(all_data) : Key(all_data[k]) = ReadingKey(i)
    /\ (pc = "fatal" /\ IndexLoaded) => collected = N

C5_Witness ==
    /\ pc = "done"
    /\ remote[1] = Valid(JStr("2024-01-01T00:00:00+07:00"))
    /\ remote[2] = TransportError
    /\ Len(all_data) = 1
    /\ "Failed" \in Range(out[2])

(* station i's answer was parsed into an observation *)
Parsed(i) ==
    /\ ~FetchRaises(remote[i])
    /\ remote[i].code = 200
    /\ ApiOk(remote[i])
    /\ parse_aqi_response(remote[i].data[1], stations[i].city) # None

(* C6: the key of every accepted observation is absent from the index    *)
(* loaded from the store at the start of the run, and a parsed           *)
(* observation whose key is in that index is never accepted.             *)
C6_AcceptedKeysAreNew ==
    IndexLoaded =>
        /\ existing_records = load_existing_records(storeAtStart)
        /\ \A k \in 1..Len(all_data) : Key(all_data[k]) \notin existing_records
        /\ \A i \in 1..N :
            (fut[i].st = "done" /\ Parsed(i) /\ ReadingKey(i) \in existing_records)
                => /\ fut[i].result = None
                   /\ \A k \in 1..Len(all_data) :
                        all_data[k]["city"] # JStr(stations[i].city)

C6_Witness ==
    /\ pc = "done"
    /\ all_data # <<>>
    /\ existing_records # {}
    /\ \E i \in 1..N : "Skipped (duplicate)" \in Range(out[i])

(* C7: a step changes the store only after backup_csv_file has returned  *)
(* in the same run; with no store file the backup step creates no backup *)
(* file, cannot fail, and the append follows.                            *)
C7_BackupBeforeAppend ==
    [][ /\ (store' # store) => (pc = "save" /\ backupReturned)
        /\ (pc = "backup" /\ ~FileExists(store))
              => (pc' = "save" /\ backups' = backups) ]_vars

C7_Witness ==
    /\ pc = "done"
    /\ ~FileExists(storeAtStart)
    /\ FileExists(store)
    /\ backupReturned
    /\ backups = backupsAtStart

(* C8: a run in which the backup or the append raised ends fatally and   *)
(* never reports "Saved"; when it was the backup that raised, nothing    *)
(* was appended and the store is as it was when the run started.         *)
C8_StoreErrorsFatal ==
    "OSError" \in Range(mainOut) =>
        /\ pc = "fatal"
        /\ "Saved" \notin Range(mainOut)
        /\ ~backupReturned => store = storeAtStart

C8_Witness ==
    /\ pc = "fatal"
    /\ "OSError" \in Range(mainOut)
    /\ ~backupReturned
    /\ FileExists(store)
    /\ all_data # <<>>

(* C9: no station is fetched twice in a run, and a run that passed the   *)
(* credential check has, when it ends, issued exactly one GET for every  *)
(* station of the catalog.                                               *)
C9_ExactlyOnceFetch ==
    /\ \A i \in 1..N : gets[i] <= 1
    /\ (runs > 0 /\ ~TokenMissing(token) /\ pc \in {"done", "fatal"})
          => \A i \in 1..N : gets[i] = 1

(* C10: at most max_workers fetches are in flight, with a catalog longer *)
(* than that.                                                            *)
C10_BoundedConcurrency == Cardinality(InFlight) <= MaxWorkers

C10_Witness ==
    /\ N > MaxWorkers
    /\ Cardinality(InFlight) = MaxWorkers
    /\ \E i \in 1..N : fut[i].st = "queued"

IsPrefix(p, q) == Len(p) <= Len(q) /\ SubSeq(q, 1, Len(p)) = p

(* C11: no step rewrites or reorders rows of the store; a save_to_csv     *)
(* that returns leaves the old rows as a prefix, puts the header first    *)
(* exactly when there was no file, and adds one row per observation of    *)
(* the list, in order; with an empty list it changes nothing.             *)
C11_AppendOnly ==
    [][ /\ IsPrefix(store.rows, store'.rows)
        /\ save_to_csv(store, <<>>) = store
        /\ (pc = "save" /\ pc' = "done") =>
            /\ Len(store'.rows) = Len(store.rows) + Len(all_data)
                                  + (IF FileExists(store) THEN 0 ELSE 1)
            /\ ~FileExists(store) => store'.rows[1] = Header
            /\ FileExists(store) =>
                  (Len(store.rows) > 0 =>
                      store'.rows[Len(store.rows) + 1] # Header)
            /\ \A k \in 1..Len(all_data) :
                  LET row == store'.rows[Len(store'.rows) - Len(all_data) + k]
                  IN /\ row # Header
                     /\ row[2] = all_data[k]["city"].v
                     /\ row[1] = CsvField(all_data[k]["datetime"]) ]_vars

C11_Witness ==
    /\ pc = "done"
    /\ "Saved" \in Range(mainOut)
    /\ Len(storeAtStart.rows) > 2
    /\ Len(all_data) = 2
    /\ Len(store.rows) = Len(storeAtStart.rows) + 2

(* C12: in a run whose AQICN_TOKEN is unset or empty the credential check *)
(* is the only step: the run is fatal with a RuntimeError, no work item   *)
(* is created, no GET is sent, and neither the store nor the backup       *)
(* directory changes.                                                     *)
C12_MissingCredentialAborts ==
    (runs > 0 /\ (token = None \/ token = Some(""))) =>
        /\ pc \in {"crawl", "fatal"}
        /\ pc = "fatal" => mainOut = <<"RuntimeError">>
        /\ \A i \in 1..N : gets[i] = 0 /\ fut[i] = NoFuture /\ out[i] = <<>>
        /\ submitted = 0
        /\ existing_records = {}
        /\ store = storeAtStart
        /\ backups = backupsAtStart

C12_Witness ==
    /\ pc = "fatal"
    /\ token = Some("")
    /\ mainOut = <<"RuntimeError">>
    /\ FileExists(store)
    /\ Len(store.rows) > 1

(* a field the parser requires is absent, or is not of the JSON type the  *)
(* parser subscripts: iaqi and time objects, city.geo a list of two       *)
RequiredBad(data) ==
    \/ ~IsDict(data, "iaqi")
    \/ ~Has(data, "time.iso")
    \/ ~Has(data, "city.geo")
    \/ data["city.geo"].t # "list"
    \/ ~Has(data, "city.geo.0") \/ ~Has(data, "city.geo.1")
    \/ ~Has(data, "aqi")

(* C13: a worker whose station answered "ok" with a payload reports a     *)
(* parsing error exactly when iaqi, time.iso, city.geo or aqi is absent   *)
(* or malformed; otherwise it returns the observation, with null for an   *)
(* absent iaqi.pm25.v and an absent dominentpol; a parsing error adds     *)
(* nothing to the accepted list.                                          *)
C13_ParseFailsOnlyOnRequired ==
    \A i \in 1..N :
        (fut[i].st = "done" /\ ApiOk(remote[i])) =>
            LET data == remote[i].data[1]
            IN /\ (out[i] = <<"Parsing error">>) <=> RequiredBad(data)
               /\ ~RequiredBad(data) =>
                    /\ fut[i].result # None
                    /\ ~Has(data, "iaqi.pm25.v") =>
                           fut[i].result[1]["pm25"] = JNull
                    /\ ~Has(data, "dominentpol") =>
                           fut[i].result[1]["dominantpol_aqi"] = JNull
               /\ RequiredBad(data) =>
                    /\ fut[i].result = None
                    /\ collected >= i => all_data = <<>>

FailedLines == {"Failed", "API error", "Parsing error"}

(* C15: a worker that has finished has printed exactly one outcome for    *)
(* its station: accepted, duplicate, or failed; a station that answered   *)
(* with a non-200 status, an API status other than "ok", or a transport   *)
(* error is printed as failed; a worker that has not finished has         *)
(* printed nothing.                                                       *)
C15_EveryOutcomeLogged ==
    \A i \in 1..N :
        /\ fut[i].st # "done" => out[i] = <<>>
        /\ fut[i].st = "done" =>
              /\ Len(out[i]) = 1
              /\ out[i][1] \in FailedLines \cup {"Crawled", "Skipped (duplicate)"}
              /\ (out[i][1] = "Crawled") <=> (fut[i].result # None)
              /\ (remote[i].exc \/ remote[i].code # 200
                    \/ remote[i].status # Some("ok"))
                    => out[i][1] \in FailedLines

(* C16: from the step after load_existing_records returned to the end of *)
(* the run no step changes the index or the catalog: the index stays the  *)
(* set loaded from the store the run started with, and the key of an      *)
(* accepted reading is not in it.                                         *)
C16_IndexReadOnly ==
    [][ (IndexLoaded /\ runs' = runs) =>
            /\ existing_records' = existing_records
            /\ existing_records' = load_existing_records(storeAtStart)
            /\ stations' = stations
            /\ \A i \in 1..N :
                  fut'[i].result # None =>
                      Key(fut'[i].result[1]) \notin existing_records' ]_vars

C16_Witness ==
    /\ pc = "done"
    /\ existing_records # {}
    /\ Len(all_data) = 2
    /\ store # storeAtStart

(* the stations whose result the main thread has taken and that returned  *)
(* an observation                                                         *)
AcceptedSoFar == {i \in 1..collected : fut[i].result # None}

ExactlyOnce ==
    /\ Len(all_data) = Cardinality(AcceptedSoFar)
    /\ \A i \in AcceptedSoFar :
          Cardinality({k \in 1..Len(all_data) :
                          all_data[k] = fut[i].result[1]}) = 1

(* C17: the accepted list changes only in a step of the main thread that  *)
(* takes one future's result (workers never write it), and after every    *)
(* step it holds the observation of each accepted station taken so far    *)
(* exactly once and nothing else, however the workers interleave.         *)
C17_SafeAccumulation ==
    [][ /\ (all_data' # all_data /\ runs' = runs) =>
              /\ collected' = collected + 1
              /\ fut' = fut
              /\ pc = "fetch"
        /\ ExactlyOnce' ]_vars

C17_Witness ==
    /\ pc = "done"
    /\ N = PoolStations
    /\ Len(all_data) = 6
    /\ Cardinality({i \in 1..N : out[i] = <<"Failed">>}) = 5

(* the position of a city in the catalog *)
CatalogIndex(city) == CHOOSE i \in 1..N : stations[i].city = city

(* the cities of a sequence are in catalog order, each at most once *)
InCatalogOrder(cities) ==
    \A k, l \in 1..Len(cities) :
        k < l => CatalogIndex(cities[k]) < CatalogIndex(cities[l])

(* the city column of the rows a run has appended to the store *)
AppendedCities ==
    [k \in 1..Len(all_data) |->
        store.rows[Len(store.rows) - Len(all_data) + k][2]]

(* C19: in whatever order the workers finish, the accepted list is in     *)
(* catalog order with at most one observation per station, and the rows   *)
(* the run appends to the store are in that order.                        *)
C19_CatalogOrder ==
    /\ InCatalogOrder([k \in 1..Len(all_data) |-> all_data[k]["city"].v])
    /\ "Saved" \in Range(mainOut) =>
          /\ InCatalogOrder(AppendedCities)
          /\ \A k \in 1..Len(all_data) :
                AppendedCities[k] = all_data[k]["city"].v

(* station 11 has finished while station 4 is still being fetched, and    *)
(* two observations have been taken                                       *)
C19_Witness ==
    /\ N = PoolStations
    /\ fut[11].st = "done"
    /\ fut[4].st = "running"
    /\ collected = 3
    /\ Len(all_data) = 2

(* C18: under fair scheduling, with every fetch returning, raising or     *)
(* timing out, a run that has started reaches a terminal state: done      *)
(* after the report, or fatal on a missing credential or a store error.   *)
C18_Termination ==
    (pc \in {"crawl", "load", "fetch", "backup", "save"})
        ~> (pc \in {"done", "fatal"})

C18_Witness ==
    /\ pc = "fatal"
    /\ mainOut = <<"Starting crawl", "Summary", "Backup created", "OSError">>
    /\ runs = 2
    /\ \E i \in 1..N : out[i] = <<"Failed">>

(* C20: starting from an absent store, whenever a run has ended normally  *)
(* and the store file exists, its first row is the header row, no later   *)
(* row is a header row, and load_existing_records reads the datetime and  *)
(* city columns of every row without an error.                            *)
C20_HeaderFirstOnce ==
    (pc = "done" /\ FileExists(store)) =>
        /\ Len(store.rows) >= 1
        /\ store.rows[1] = Header
        /\ \A k \in 2..Len(store.rows) : store.rows[k] # Header
        /\ ~LoadRaises(store)

====
